---- MODULE Spec2Model ----
(***************************************************************************)
(* Total-variation denoising by FISTA (reconstruction/tv_denoising.py):    *)
(* the finite-difference operators gradient and div, the projection on the *)
(* dual unit ball, the dual gap, and the solver loop tv_denoise_fista.     *)
(*                                                                         *)
(* An ndarray is a record [shape, data]: data maps every index tuple of    *)
(* the shape (0-based coordinates, as in the source) to a number.  Real    *)
(* numbers are fixed-point integers: the real v is the integer v * Scale.  *)
(***************************************************************************)
EXTENDS Integers, Sequences, FiniteSets, TLC

VARIABLES arg, loc, heap, pc, obs, adj, prj

vars == <<arg, loc, heap, pc, obs, adj, prj>>

(***************************************************************************)
(* Bounds of the model.                                                    *)
(***************************************************************************)
\* resolution of the fixed-point numbers: 1.0 is the integer Scale
Scale == 16
\* axes of the arrays given to gradient and div have lengths 2..MaxDim
MaxDim == 3
\* n_iter_max ranges over 0..MaxIter
MaxIter == 4

One == Scale

(***************************************************************************)
(* Arithmetic.                                                             *)
(***************************************************************************)
Abs(a) == IF a < 0 THEN -a ELSE a
Max(a, b) == IF a >= b THEN a ELSE b
Min(a, b) == IF a <= b THEN a ELSE b

\* a / b for b > 0, rounded to the nearest integer
RDiv(a, b) == IF a >= 0 THEN (2 * a + b) \div (2 * b)
                        ELSE -((2 * (-a) + b) \div (2 * b))

\* product and quotient of two fixed-point numbers
FMul(a, b) == RDiv(a * b, One)
FDiv(a, b) == IF b > 0 THEN RDiv(a * One, b) ELSE -RDiv(a * One, -b)

RECURSIVE SqrtSearch(_, _, _)
SqrtSearch(n, lo, hi) ==
    IF lo >= hi THEN lo
    ELSE LET mid == (lo + hi + 1) \div 2
         IN  IF mid * mid <= n THEN SqrtSearch(n, mid, hi)
                               ELSE SqrtSearch(n, lo, mid - 1)

\* the integer part of the square root of n >= 0
ISqrt(n) == SqrtSearch(n, 0, n)

\* the square root of n >= 0, rounded to the nearest integer
RSqrt(n) == LET r == ISqrt(n) IN IF n - r * r > r THEN r + 1 ELSE r

\* np.sqrt of a fixed-point number
FSqrt(a) == RSqrt(a * One)

RECURSIVE SumTo(_, _)
\* the sum of f[k] for k in 0..n-1
SumTo(f, n) == IF n = 0 THEN 0 ELSE f[n - 1] + SumTo(f, n - 1)

RECURSIVE MaxTo(_, _)
\* the largest f[k] for k in 0..n-1 (n >= 1)
MaxTo(f, n) == IF n = 1 THEN f[0] ELSE Max(f[n - 1], MaxTo(f, n - 1))

(***************************************************************************)
(* ndarrays.                                                               *)
(***************************************************************************)
\* the index tuples of an array of the given shape
Grid(shape) ==
    {p \in [1..Len(shape) -> 0..(MaxTo([k \in 0..(Len(shape) - 1) |-> shape[k + 1]], Len(shape)) - 1)] :
        \A k \in 1..Len(shape) : p[k] < shape[k]}

RECURSIVE SumFrom(_, _, _)
\* the sum of the table f over the index tuples of the shape that start
\* with prefix
SumFrom(f, shape, prefix) ==
    IF Len(prefix) = Len(shape) THEN f[prefix]
    ELSE SumTo([k \in 0..(shape[Len(prefix) + 1] - 1) |->
                   SumFrom(f, shape, Append(prefix, k))],
               shape[Len(prefix) + 1])

\* np.sum of f over the index tuples of the shape
SumGrid(f, shape) == SumFrom(f, shape, <<>>)

\* the array a with every element computed (an array is a finite table of
\* numbers, not a rule to compute them)
Eager(a) == [shape |-> a.shape, data |-> a.data @@ <<>>]

\* np.zeros(shape)
Zeros(shape) == [shape |-> shape, data |-> [p \in Grid(shape) |-> 0]]

\* a.ndim
Ndim(a) == Len(a.shape)

\* the index p moved by k along axis d (axes are numbered from 0)
Shift(p, d, k) == [p EXCEPT ![d + 1] = @ + k]

\* np.diff(a, axis=d)[p], for p[d] < a.shape[d] - 1
DiffAt(a, d, p) == a.data[Shift(p, d, 1)] - a.data[p]

\* np.sum(a * b) of two arrays of the same shape, the products exact
Dot(a, b) == SumGrid([p \in Grid(a.shape) |-> a.data[p] * b.data[p]], a.shape)

(***************************************************************************)
(* gradient and div.                                                       *)
(***************************************************************************)
\* gradient[d, ..., :-1 along axis d, ...] = np.diff(img, axis=d); the last
\* slice along axis d of component d stays 0
gradient(img) ==
    LET shape == <<Ndim(img)>> \o img.shape
    IN  [shape |-> shape,
         data  |-> [q \in Grid(shape) |->
                      LET d == q[1]
                          p == Tail(q)
                      IN  IF p[d + 1] < img.shape[d + 1] - 1
                          THEN DiffAt(img, d, p)
                          ELSE 0]]

\* a bug div could have: the last position takes this_grad[-1], not this_grad[-2]
DivLastTermWrong(grad, d, p, n) ==
    IF p[d + 1] = n - 1 THEN grad.data[<<d>> \o p] ELSE 0

\* this_res[-1] -= this_grad[-2], where this_grad is grad[d] seen along axis d
DivLastTerm(grad, d, p, n) ==
    IF p[d + 1] = n - 1 THEN grad.data[<<d>> \o Shift(p, d, -1)] ELSE 0

\* what the loop of div adds to res[p] for the axis d, of length n
DivAxis(grad, d, p, n) ==
      (IF p[d + 1] <= n - 2 THEN grad.data[<<d>> \o p] ELSE 0)        \* this_res[:-1] += this_grad[:-1]
    - (IF p[d + 1] >= 1 /\ p[d + 1] <= n - 2
          THEN grad.data[<<d>> \o Shift(p, d, -1)] ELSE 0)            \* this_res[1:-1] -= this_grad[:-2]
    - DivLastTerm(grad, d, p, n)

div(grad) ==
    LET shape == Tail(grad.shape)
    IN  [shape |-> shape,
         data  |-> [p \in Grid(shape) |->
                      SumTo([d \in 0..(grad.shape[1] - 1) |-> DivAxis(grad, d, p, shape[d + 1])],
                            grad.shape[1])]]

(***************************************************************************)
(* _projector_on_dual.  The quotient g / max(norm, 1) is irrational in     *)
(* general, so it is kept exact as the pair [num, den2] that stands for    *)
(* num / sqrt(den2): the numerator is the component and den2 is the square *)
(* of the divisor max(sqrt(sum of squares), 1), in units of 1 / Scale^2.   *)
(* Rounded gives the fixed-point array the solver goes on with.            *)
(***************************************************************************)
\* np.sum(grad ** 2, 0)[p]: the squares summed across the components at p
NormSq(grad, p) ==
    SumTo([d \in 0..(grad.shape[1] - 1) |-> grad.data[<<d>> \o p] * grad.data[<<d>> \o p]],
          grad.shape[1])

\* a bug the projector could have: np.minimum for np.maximum
ProjNormSqMin(grad, p) == Min(NormSq(grad, p), One * One)

\* the square of norm[p], norm = np.maximum(np.sqrt(np.sum(grad ** 2, 0)), 1.)
ProjNormSq(grad, p) == Max(NormSq(grad, p), One * One)

\* for grad_comp in grad: grad_comp /= norm
_projector_on_dual(grad) ==
    [shape |-> grad.shape,
     data  |-> [q \in Grid(grad.shape) |->
                  [num |-> grad.data[q], den2 |-> ProjNormSq(grad, Tail(q))]]]

\* the fixed-point value of the exact quotient num / sqrt(den2)
Rounded(a) ==
    [shape |-> a.shape,
     data  |-> [q \in Grid(a.shape) |-> RDiv(a.data[q].num * One, RSqrt(a.data[q].den2))]]

(***************************************************************************)
(* Floating-point values that may be infinite or not a number: the         *)
(* clipping bounds, the dual gap and the relative difference.              *)
(***************************************************************************)
Fin(v) == [kind |-> "finite", v |-> v]
NaN == [kind |-> "nan", v |-> 0]
\* the infinity of the sign of s (s is 1 or -1)
Inf(s) == [kind |-> "inf", v |-> s]

Sign(v) == IF v > 0 THEN 1 ELSE IF v < 0 THEN -1 ELSE 0

\* a / b for fixed-point a and b: dividing by zero raises nothing, it gives
\* nan (0 / 0) or an infinity
FloatDiv(a, b) ==
    IF b # 0 THEN Fin(FDiv(a, b))
    ELSE IF a = 0 THEN NaN ELSE Inf(Sign(a))

\* x * b for a float x and a fixed-point b
FloatMul(x, b) ==
    IF x.kind = "finite" THEN Fin(FMul(x.v, b))
    ELSE IF x.kind = "nan" \/ b = 0 THEN NaN
    ELSE Inf(x.v * Sign(b))

\* x < b: every comparison with nan is false
FloatLess(x, b) ==
    IF x.kind = "finite" THEN x.v < b
    ELSE IF x.kind = "nan" THEN FALSE
    ELSE x.v < 0

\* -x
FloatNeg(x) == [x EXCEPT !.v = -@]

(***************************************************************************)
(* Element-wise operations of the solver, in fixed-point arithmetic.       *)
(***************************************************************************)
\* img.astype(np.float) of an array of integers
AsFloat(a) == [shape |-> a.shape, data |-> [q \in Grid(a.shape) |-> a.data[q] * One]]

\* -a
Neg(a) == [shape |-> a.shape, data |-> [q \in Grid(a.shape) |-> -a.data[q]]]

\* a + b and a - b
Add(a, b) == [shape |-> a.shape, data |-> [q \in Grid(a.shape) |-> a.data[q] + b.data[q]]]
Minus(a, b) == [shape |-> a.shape, data |-> [q \in Grid(a.shape) |-> a.data[q] - b.data[q]]]

\* c * a for a fixed-point scalar c
Times(c, a) == [shape |-> a.shape, data |-> [q \in Grid(a.shape) |-> FMul(c, a.data[q])]]

\* an element clipped as ndarray.clip(lo, hi) does: a bound that is nan (a
\* bound that was not supplied) does not clip
ClipValue(v, lo, hi) ==
    IF lo.kind = "finite" /\ v < lo.v THEN lo.v
    ELSE IF hi.kind = "finite" /\ v > hi.v THEN hi.v
    ELSE v

\* a.clip(lo, hi, out=a): the new value of a
Clip(a, lo, hi) ==
    [shape |-> a.shape, data |-> [q \in Grid(a.shape) |-> ClipValue(a.data[q], lo, hi)]]

RECURSIVE MaxFrom(_, _, _)
\* the largest element of the table f over the index tuples of the shape that start with prefix
MaxFrom(f, shape, prefix) ==
    IF Len(prefix) = Len(shape) THEN f[prefix]
    ELSE MaxTo([k \in 0..(shape[Len(prefix) + 1] - 1) |->
                   MaxFrom(f, shape, Append(prefix, k))],
               shape[Len(prefix) + 1])

\* np.max(np.abs(a))
MaxAbs(a) == MaxFrom([p \in Grid(a.shape) |-> Abs(a.data[p])], a.shape, <<>>)

\* (a ** 2).sum()
SumSq(a) == SumGrid([p \in Grid(a.shape) |-> FMul(a.data[p], a.data[p])], a.shape)

(***************************************************************************)
(* dual_gap.                                                               *)
(***************************************************************************)
\* g[..., :-1 along axis d, ...] = np.diff(new, axis=d) at p, g zero elsewhere
ForwardDiff(new, d, p) ==
    IF p[d + 1] < new.shape[d + 1] - 1 THEN DiffAt(new, d, p) ELSE 0

\* np.sqrt(gx ** 2 + gy ** 2).sum(), with gz ** 2 too when im.ndim == 3
TvNorm(im, new) ==
    LET axes == IF Ndim(im) = 3 THEN 3 ELSE 2
    IN  SumGrid([p \in Grid(new.shape) |->
                   FSqrt(SumTo([d \in 0..(axes - 1) |->
                                   FMul(ForwardDiff(new, d, p), ForwardDiff(new, d, p))],
                               axes))],
                new.shape)

dual_gap(im, new, gap, weight) ==
    LET im_norm == SumSq(im)
        tv_new  == FMul(2 * weight, TvNorm(im, new))
        dgap    == SumSq(gap) + tv_new - im_norm + SumSq(new)
    IN  FloatMul(FloatDiv(One, 2 * im_norm), dgap)

(***************************************************************************)
(* tv_denoise_fista.  Arrays live on a heap: a name of the function holds  *)
(* a reference (an index of heap, 0 when the name is not bound), so that   *)
(* in-place updates and aliases are those of the source.                   *)
(***************************************************************************)
None == <<>>
Some(v) == <<v>>

\* the Lipschitz bound for the rank, or None where the source raises
\* ValueError
LipschitzAnyRank(ndim) == IF ndim = 2 THEN Some(9) ELSE Some(12)

lipschitz_constant(ndim) ==
    IF ndim = 2 THEN Some(9)
    ELSE IF ndim = 3 THEN Some(12)
    ELSE None

\* val_min is not None or val_max is not None
Bounded(a) == a.val_min # None \/ a.val_max # None

\* a bug the solver could have: the dual gap used unless both bounds are set
UseDualGapOr(a) == a.val_min = None \/ a.val_max = None

\* val_min is None and val_max is None: the test is on the dual gap
UseDualGap(a) == a.val_min = None /\ a.val_max = None

\* a bug the solver could have: the test run one iteration late
IsCheckPointLate(i, check_gap_frequency) == ((i + 1) % check_gap_frequency) = 0

\* (i % check_gap_frequency) == 0
IsCheckPoint(i, check_gap_frequency) == (i % check_gap_frequency) = 0

\* stands for an array that has not been observed yet
NoArray == [shape |-> <<>>, data |-> <<>>]

NoLocals ==
    [input_img |-> 0, grad_im |-> 0, grad_aux |-> 0, t |-> 0, i |-> 0,
     lipschitz_constant |-> 0, negated_output |-> 0,
     negated_val_min |-> NaN, negated_val_max |-> NaN,
     negated_output_old |-> 0, gap |-> 0, output |-> 0]

\* what is observed of a call: the caller's array before the call, the
\* exception raised, the turns of the loop
\* run, the iterations i in which the convergence test was evaluated, how
\* often each test was evaluated, the value and the kind of the last test,
\* why the loop ended; the estimate gap - input_img of the latest turn
\* before its clip, the one of the turn that took the snapshot, the number
\* of snapshots taken in the loop, the estimate at the latest check point
\* and at the one before, and the snapshot the latest test read
NoObs ==
    [im_before |-> NoArray,
     exc |-> "", iters |-> 0, checks |-> {}, n_dual_gap |-> 0, n_rel_diff |-> 0,
     metric |-> NaN, criterion |-> "", stop |-> "",
     unclipped |-> NoArray, snap_unclipped |-> NoArray, snaps |-> 0,
     check_est |-> NoArray, prev_check_est |-> NoArray, old_read |-> NoArray]

\* the images the solver is called with: arrays of small integers
Images ==
    LET over(shape) ==
            {[shape |-> shape, data |-> [p \in Grid(shape) |-> 0]],
             [shape |-> shape, data |-> [p \in Grid(shape) |-> IF p[1] = 0 THEN 0 ELSE 2]],
             [shape |-> shape, data |-> [p \in Grid(shape) |-> IF p[1] = p[2] THEN 3 ELSE 0]],
             [shape |-> shape, data |-> [p \in Grid(shape) |-> p[1] + 2 * p[2]]]}
    IN  over(<<3, 2>>) \cup over(<<2, 2, 2>>)
        \cup {[shape |-> <<3>>, data |-> [p \in Grid(<<3>>) |-> p[1]]],
              [shape |-> <<2, 2, 2, 2>>, data |-> [p \in Grid(<<2, 2, 2, 2>>) |-> p[4]]]}

\* the pairs (val_min, val_max): each bound may be left out, and
\* val_min <= val_max when both are given
BoundPairs ==
    {<<None, None>>, <<Some(0), None>>, <<None, Some(One)>>,
     <<Some(0), Some(One)>>, <<Some(One), Some(One)>>}

Init ==
    /\ \E img \in Images, kind \in {"f", "i"}, w \in {One \div 2, 2 * One},
          e \in {1, One \div 4}, n \in 0..MaxIter, f \in 1..3, b \in BoundPairs :
          /\ arg = [im |-> 1, dtype |-> kind, weight |-> w, eps |-> e,
                    n_iter_max |-> n, check_gap_frequency |-> f,
                    val_min |-> b[1], val_max |-> b[2]]
          /\ heap = <<IF kind = "f" THEN AsFloat(img) ELSE img>>
          /\ obs = [NoObs EXCEPT !.im_before = IF kind = "f" THEN AsFloat(img) ELSE img]
    /\ loc = NoLocals
    /\ pc = "call"
    /\ adj = <<>>
    /\ prj = <<>>

\* the four variables the solver changes, from a record of their new values
Becomes(r) == heap' = r.heap /\ loc' = r.loc /\ pc' = r.pc /\ obs' = r.obs

\* lines 155-168, the rank being 2 or 3: h holds negated_output = -input_img
\* as its last array
SetupLoop(h, l, a, o) ==
    [heap |-> IF Bounded(a) THEN Append(h, h[Len(h)]) ELSE h,
     loc  |-> [l EXCEPT
                 !.negated_output = Len(h),
                 !.negated_val_min = IF a.val_min # None THEN Fin(-a.val_min[1]) ELSE NaN,
                 !.negated_val_max = IF a.val_max # None THEN Fin(-a.val_max[1]) ELSE NaN,
                 \* negated_output_old = negated_output.copy()
                 !.negated_output_old = IF Bounded(a) THEN Len(h) + 1 ELSE 0],
     pc   |-> "loop",
     obs  |-> [o EXCEPT !.unclipped = h[Len(h)], !.snap_unclipped = h[Len(h)],
                        !.check_est = h[Len(h)], !.prev_check_est = h[Len(h)]]]

\* lines 142-154: h holds input_img at the reference input_img
SetupArrays(h, l, a, o, input_img, shape, lip) ==
    IF lip = None
    THEN [heap |-> Append(Append(h, Zeros(shape)), Zeros(shape)),
          loc  |-> [l EXCEPT !.input_img = input_img, !.grad_im = Len(h) + 1,
                             !.grad_aux = Len(h) + 2, !.t = One, !.i = 0],
          pc   |-> "raised",
          obs  |-> [o EXCEPT !.exc = "ValueError"]]
    ELSE SetupLoop(Append(Append(Append(h, Zeros(shape)), Zeros(shape)),
                          Eager(Neg(h[input_img]))),
                   [l EXCEPT !.input_img = input_img, !.grad_im = Len(h) + 1,
                             !.grad_aux = Len(h) + 2, !.t = One, !.i = 0,
                             !.lipschitz_constant = lip[1]],
                   a, o)

\* lines 139-141: input_img is im, or a copy of it as floats
SetupInput(h, l, a, o) ==
    IF a.dtype # "f"
    THEN SetupArrays(Append(h, Eager(AsFloat(h[a.im]))), l, a, o, Len(h) + 1,
                     <<Ndim(h[a.im])>> \o h[a.im].shape, lipschitz_constant(Ndim(h[a.im])))
    ELSE SetupArrays(h, l, a, o, a.im,
                     <<Ndim(h[a.im])>> \o h[a.im].shape, lipschitz_constant(Ndim(h[a.im])))

\* lines 139-168: the state before the loop, or ValueError
Setup ==
    /\ pc = "call"
    /\ Becomes(SetupInput(heap, loc, arg, obs))
    /\ UNCHANGED <<arg, adj, prj>>

\* lines 170-173: grad_tmp = gradient(negated_output), scaled by
\* 1. / (lipschitz_constant * weight) and added into grad_aux, which is then
\* projected in place
ProjectedDual(negated_output, grad_aux, lip, weight) ==
    Eager(Rounded(Eager(_projector_on_dual(
        Eager(Add(grad_aux, Times(FDiv(One, lip * weight), Eager(gradient(negated_output)))))))))

\* line 174: t_new = 1. / 2 * (1 + np.sqrt(1 + 4 * t ** 2))
TNew(t) == RDiv(One + FSqrt(One + 4 * FMul(t, t)), 2)

\* line 176: (1 + t_factor) * grad_tmp - t_factor * grad_im
Extrapolated(t_factor, grad_tmp, grad_im) ==
    Eager(Minus(Times(One + t_factor, grad_tmp), Times(t_factor, grad_im)))

\* lines 196-197: np.max(np.abs(negated_output_old - negated_output)) divided
\* by np.max(np.abs(negated_output))
RelativeDifference(negated_output_old, negated_output) ==
    FloatDiv(MaxAbs(Minus(negated_output_old, negated_output)), MaxAbs(negated_output))

\* a bug the solver could have: the snapshot taken in every turn
SnapshotEveryTurn(by_diff, stop) == ~stop

\* line 203 is reached: the relative difference was tested and was not
\* below eps
SnapshotTaken(by_diff, stop) == by_diff /\ ~stop

\* lines 186-204, the test evaluated (check) or not, its value being metric:
\* h holds the new grad_aux, gap and negated_output as its last three arrays
AfterTest(h, l, a, o, t_new, unclipped, check, metric, stop) ==
    [heap |-> h,
     loc  |-> [l EXCEPT
                 !.grad_aux = Len(h) - 2,
                 !.grad_im = l.grad_aux,
                 !.t = t_new,
                 !.gap = Len(h) - 1,
                 !.negated_output = Len(h),
                 \* negated_output_old = negated_output
                 !.negated_output_old =
                     IF SnapshotTaken(check /\ ~UseDualGap(a), stop) THEN Len(h) ELSE @,
                 !.i = IF stop THEN @ ELSE @ + 1],
     pc   |-> IF stop THEN "break" ELSE "loop",
     obs  |-> [o EXCEPT
                 !.iters = @ + 1,
                 !.checks = IF check THEN @ \cup {l.i} ELSE @,
                 !.n_dual_gap = IF check /\ UseDualGap(a) THEN @ + 1 ELSE @,
                 !.n_rel_diff = IF check /\ ~UseDualGap(a) THEN @ + 1 ELSE @,
                 !.metric = metric,
                 !.criterion = IF ~check THEN @
                               ELSE IF UseDualGap(a) THEN "dual gap"
                               ELSE "relative difference",
                 !.stop = IF stop THEN "converged" ELSE @,
                 !.unclipped = unclipped,
                 !.snap_unclipped =
                     IF SnapshotTaken(check /\ ~UseDualGap(a), stop) THEN unclipped ELSE @,
                 !.snaps = IF SnapshotTaken(check /\ ~UseDualGap(a), stop) THEN @ + 1 ELSE @,
                 !.check_est = IF check THEN h[Len(h)] ELSE @,
                 !.prev_check_est = IF check THEN o.check_est ELSE @,
                 !.old_read = IF check /\ ~UseDualGap(a)
                              THEN h[l.negated_output_old] ELSE @]]

\* lines 186-202: the value of the test of this turn
Tested(h, l, a, o, t_new, unclipped, check, metric) ==
    AfterTest(h, l, a, o, t_new, unclipped, check, metric,
              check /\ FloatLess(metric, a.eps))

\* lines 181-202: negated_output = gap - input_img, clipped in place when a
\* bound is given, and the test
Primal(h, l, a, o, t_new, gap, unclipped, negated_output) ==
    Tested(Append(h, negated_output), l, a, o, t_new, unclipped,
           IsCheckPoint(l.i, a.check_gap_frequency),
           IF ~IsCheckPoint(l.i, a.check_gap_frequency) THEN o.metric
           ELSE IF UseDualGap(a)
                THEN dual_gap(h[l.input_img], Eager(Neg(negated_output)), gap, a.weight)
                ELSE RelativeDifference(h[l.negated_output_old], negated_output))

Unclipped(h, l, a, o, t_new, gap, unclipped) ==
    Primal(h, l, a, o, t_new, gap, unclipped,
           IF Bounded(a)
           THEN Eager(Clip(unclipped, l.negated_val_max, l.negated_val_min))
           ELSE unclipped)

\* lines 179-181: gap = weight * div(grad_im), a new array
Gap(h, l, a, o, t_new, gap) ==
    Unclipped(Append(h, gap), l, a, o, t_new, gap, Eager(Minus(gap, h[l.input_img])))

\* lines 174-179: grad_tmp is the array grad_aux named, projected in place;
\* grad_aux becomes a new array and grad_im the projected one
Momentum(h, l, a, o, grad_tmp, t_new) ==
    Gap(Append([h EXCEPT ![l.grad_aux] = grad_tmp],
               Extrapolated(FDiv(l.t - One, t_new), grad_tmp, h[l.grad_im])),
        l, a, o, t_new, Eager(Times(a.weight, div(grad_tmp))))

\* lines 170-204: one turn of the loop
LoopBody(h, l, a, o) ==
    Momentum(h, l, a, o,
             ProjectedDual(h[l.negated_output], h[l.grad_aux], l.lipschitz_constant, a.weight),
             TNew(l.t))

\* lines 169-204: one turn of the loop
Iterate ==
    /\ pc = "loop"
    /\ loc.i < arg.n_iter_max
    /\ Becomes(LoopBody(heap, loc, arg, obs))
    /\ UNCHANGED <<arg, adj, prj>>

\* a bug the solver could have: the final clip left out
OutputUnclipped(h, l, a) == Eager(Minus(h[l.input_img], h[l.gap]))

\* lines 206-209: output = input_img - gap, clipped in place when a bound is
\* given
Output(h, l, a) ==
    IF Bounded(a)
    THEN Eager(Clip(Minus(h[l.input_img], h[l.gap]),
                    FloatNeg(l.negated_val_min), FloatNeg(l.negated_val_max)))
    ELSE Eager(Minus(h[l.input_img], h[l.gap]))

\* a bug the solver could have: output = input_img; output -= gap, which
\* writes the result into the array input_img names
ReturnedInPlace(h, l, a, o, stop) ==
    IF l.gap = 0
    THEN [heap |-> h, loc |-> l, pc |-> "raised",
          obs |-> [o EXCEPT !.exc = "UnboundLocalError", !.stop = stop]]
    ELSE [heap |-> [h EXCEPT ![l.input_img] = Output(h, l, a)],
          loc  |-> [l EXCEPT !.output = l.input_img],
          pc   |-> "returned",
          obs  |-> [o EXCEPT !.stop = stop]]

\* lines 205-209, the loop left for the reason stop
Returned(h, l, a, o, stop) ==
    IF l.gap = 0
    THEN \* gap is bound in the loop only: UnboundLocalError
         [heap |-> h, loc |-> l, pc |-> "raised",
          obs |-> [o EXCEPT !.exc = "UnboundLocalError", !.stop = stop]]
    ELSE [heap |-> Append(h, Output(h, l, a)),
          loc  |-> [l EXCEPT !.output = Len(h) + 1],
          pc   |-> "returned",
          obs  |-> [o EXCEPT !.stop = stop]]

\* lines 205-209, after a break or when i < n_iter_max fails
Return ==
    /\ \/ pc = "break"
       \/ pc = "loop" /\ loc.i >= arg.n_iter_max
    /\ Becomes(Returned(heap, loc, arg, obs,
                        IF pc = "loop" THEN "exhausted" ELSE obs.stop))
    /\ UNCHANGED <<arg, adj, prj>>

Next == Setup \/ Iterate \/ Return

Spec == Init /\ [][Next]_vars

(***************************************************************************)
(* Properties of tv_denoise_fista.                                         *)
(***************************************************************************)
\* the rank of the caller's image
Rank == Ndim(heap[arg.im])

\* val_min or val_max was supplied
AnyBound == arg.val_min # None \/ arg.val_max # None

\* C2: when val_min and val_max are both supplied with val_min <= val_max,
\* every element of the array returned lies in [val_min, val_max], whatever
\* n_iter_max and however the loop ended.
BoundsEnforced ==
    (/\ pc = "returned"
     /\ arg.val_min # None
     /\ arg.val_max # None
     /\ arg.val_min[1] <= arg.val_max[1])
    => \A p \in Grid(heap[loc.output].shape) :
          /\ arg.val_min[1] <= heap[loc.output].data[p]
          /\ heap[loc.output].data[p] <= arg.val_max[1]

\* a call with both bounds returned after two turns or more, and the final
\* clip changed an element of input_img - gap
BoundsEnforcedWitness ==
    /\ pc = "returned"
    /\ arg.val_min # None
    /\ arg.val_max # None
    /\ obs.iters >= 2
    /\ \E p \in Grid(heap[loc.output].shape) :
          heap[loc.input_img].data[p] - heap[loc.gap].data[p] > arg.val_max[1]

\* C3: a call with an image whose rank is not 2 or 3 raises ValueError
\* before the loop: no turn of the loop runs and nothing is returned.
UnsupportedRankRaises ==
    Rank \notin {2, 3}
    => /\ pc \in {"call", "raised"}
       /\ pc = "raised" => obs.exc = "ValueError"
       /\ obs.iters = 0
       /\ loc.output = 0

\* a call with a rank-4 image and a positive budget has raised ValueError
UnsupportedRankWitness ==
    /\ Rank = 4
    /\ arg.n_iter_max > 0
    /\ pc = "raised"
    /\ obs.exc = "ValueError"

\* C4: for every n_iter_max >= 0, when the loop ends because i reached
\* n_iter_max, the call returns an array of the input's shape and raises
\* nothing.
ExhaustionReturns ==
    (Rank \in {2, 3} /\ obs.stop = "exhausted")
    => /\ pc = "returned"
       /\ obs.exc = ""
       /\ heap[loc.output].shape = heap[arg.im].shape

\* C6: the caller's array im holds the values it held before the call, and
\* the array returned is another object than im.
InputUntouched ==
    /\ heap[arg.im] = obs.im_before
    /\ pc = "returned" => loc.output # arg.im

\* a call with a float image, which is used without a copy, and a bound has
\* returned after two turns or more
InputUntouchedWitness ==
    /\ pc = "returned"
    /\ arg.dtype = "f"
    /\ loc.input_img = arg.im
    /\ AnyBound
    /\ obs.iters >= 2
    /\ heap[loc.output] # heap[arg.im]

\* C7: when val_min or val_max is supplied the dual gap is never evaluated
\* and the loop stops early only on the relative difference; when neither
\* is supplied the relative difference is never evaluated.
CriterionByBounds ==
    /\ AnyBound => /\ obs.n_dual_gap = 0
                   /\ obs.stop = "converged" => obs.criterion = "relative difference"
    /\ ~AnyBound => /\ obs.n_rel_diff = 0
                    /\ obs.stop = "converged" => obs.criterion = "dual gap"

\* a call with exactly one bound has stopped early at its second test or
\* a later one
CriterionByBoundsWitness ==
    /\ (arg.val_min = None) # (arg.val_max = None)
    /\ obs.stop = "converged"
    /\ obs.n_rel_diff >= 2

\* C8: the convergence test is evaluated exactly in the iterations i with
\* i mod check_gap_frequency = 0; the loop body runs at most n_iter_max
\* times, and when the loop stops early it has run k * check_gap_frequency
\* + 1 turns for some k >= 0, the last of them a check iteration.
CheckSchedule ==
    /\ obs.checks = {j \in 0..(obs.iters - 1) : j % arg.check_gap_frequency = 0}
    /\ obs.n_dual_gap + obs.n_rel_diff = Cardinality(obs.checks)
    /\ obs.iters <= arg.n_iter_max
    /\ obs.stop = "converged"
       => /\ \E k \in 0..obs.iters : obs.iters = k * arg.check_gap_frequency + 1
          /\ (obs.iters - 1) \in obs.checks
          /\ loc.i = obs.iters - 1

\* a call that tests every second iteration has stopped early, in its third
\* turn or later, before the budget was used up
CheckScheduleWitness ==
    /\ arg.check_gap_frequency = 2
    /\ obs.stop = "converged"
    /\ obs.iters >= 3
    /\ obs.iters < arg.n_iter_max

\* the elements of the array a lie within the clipping bounds of the loop
WithinLoopBounds(a) ==
    \A p \in Grid(a.shape) :
        /\ loc.negated_val_max.kind = "finite" => a.data[p] >= loc.negated_val_max.v
        /\ loc.negated_val_min.kind = "finite" => a.data[p] <= loc.negated_val_min.v

\* C9 as stated: the snapshot negated_output_old holds an unclipped
\* estimate, being captured before the iteration's clip.
SnapshotBeforeClip ==
    (AnyBound /\ loc.negated_output_old # 0)
    => heap[loc.negated_output_old] = obs.snap_unclipped

\* C9 as amended: the snapshot is a copy of the unclipped initial estimate
\* until the first check point, and at every check point whose relative
\* difference is not below eps it becomes the current estimate after the
\* iteration's clip; so a snapshot taken in the loop lies within the
\* bounds, and each test compares the current estimate with the estimate
\* of the previous check point (the initial one at the first).
SnapshotAfterClip ==
    (AnyBound /\ loc.negated_output_old # 0)
    => /\ obs.snaps = 0 => heap[loc.negated_output_old] = Neg(heap[loc.input_img])
       /\ obs.snaps > 0 => WithinLoopBounds(heap[loc.negated_output_old])
       /\ pc = "loop" => /\ heap[loc.negated_output_old] = obs.check_est
                         /\ obs.snaps = obs.n_rel_diff
       /\ obs.n_rel_diff > 0 => obs.old_read = obs.prev_check_est

\* a snapshot taken in the loop, at the second test or a later one, in an
\* iteration whose clip changed the estimate
SnapshotWitness ==
    /\ AnyBound
    /\ obs.snaps >= 2
    /\ heap[loc.negated_output_old] # obs.snap_unclipped
    /\ obs.old_read # heap[loc.negated_output_old]

\* the caller's image is all zeros
ZeroImage == \A p \in Grid(heap[arg.im].shape) : heap[arg.im].data[p] = 0

\* C10: with no bounds, an all-zero image is taken as converged: the
\* certificate is 0 and the loop stops at the first check point, iteration 0.
ZeroImageConverges ==
    (ZeroImage /\ ~AnyBound /\ Rank \in {2, 3} /\ obs.iters >= 1)
    => /\ obs.metric = Fin(0)
       /\ obs.stop = "converged"
       /\ obs.iters = 1

(***************************************************************************)
(* The adjointness test of the source, on inputs drawn from bounded sets.  *)
(* gradient and div are linear, so <gradient x, y> and <x, div y> are      *)
(* bilinear in (x, y): the inputs are the unit impulses, which span all    *)
(* arrays of the shape.                                                    *)
(***************************************************************************)
\* the shapes of the given rank with every axis of length 2..MaxDim, the
\* lengths in non-decreasing order (the operators treat every axis alike)
Shapes(rank) ==
    {s \in [1..rank -> 2..MaxDim] : \A k \in 1..(rank - 1) : s[k] <= s[k + 1]}

\* the arrays of the shape that are v at one index and 0 elsewhere
Impulses(shape, V) ==
    {[shape |-> shape, data |-> [p \in Grid(shape) |-> IF p = at THEN v ELSE 0]] :
        at \in Grid(shape), v \in V}

InitAdjoint ==
    /\ \E s \in Shapes(2) \cup Shapes(3) :
          \E x \in Impulses(s, {1}), y \in Impulses(<<Len(s)>> \o s, {1}) :
             adj = [x |-> x, y |-> y, tested |-> FALSE, lhs |-> 0, rhs |-> 0]
    /\ arg = <<>> /\ loc = <<>> /\ heap = <<>> /\ pc = "idle" /\ obs = <<>>
    /\ prj = <<>>

\* np.sum(gradient(x) * y) against -np.sum(x * div(y))
test_grad_div_adjoint ==
    /\ ~adj.tested
    /\ adj' = [adj EXCEPT !.tested = TRUE,
                          !.lhs = Dot(gradient(adj.x), adj.y),
                          !.rhs = -Dot(adj.x, div(adj.y))]
    /\ UNCHANGED <<arg, loc, heap, pc, obs, prj>>

NextAdjoint == test_grad_div_adjoint

SpecAdjoint == InitAdjoint /\ [][NextAdjoint]_vars

(***************************************************************************)
(* The projector on inputs drawn from bounded sets.  The projection acts   *)
(* on every grid point by itself: one point takes every combination of the *)
(* values, the other points hold a background value.                       *)
(***************************************************************************)
ProjVals == {-2 * One, -One, -(One \div 2), 0, One \div 2, One}

\* the fields over a 2 x 2 (x 2) grid whose components at the point at are
\* c and whose other elements are bg
ProjInputs(rank) ==
    LET shape == <<rank>> \o [k \in 1..rank |-> 2]
    IN  {[shape |-> shape,
          data  |-> [q \in Grid(shape) |-> IF Tail(q) = at THEN c[q[1] + 1] ELSE bg]] :
            at \in Grid(Tail(shape)), c \in [1..rank -> ProjVals], bg \in {0, 2 * One}}

InitProjector ==
    /\ \E g \in ProjInputs(2) \cup ProjInputs(3) :
          prj = [grad |-> g, projected |-> FALSE, out |-> g]
    /\ arg = <<>> /\ loc = <<>> /\ heap = <<>> /\ pc = "idle" /\ obs = <<>>
    /\ adj = <<>>

ApplyProjector ==
    /\ ~prj.projected
    /\ prj' = [prj EXCEPT !.projected = TRUE, !.out = _projector_on_dual(prj.grad)]
    /\ UNCHANGED <<arg, loc, heap, pc, obs, adj>>

NextProjector == ApplyProjector

SpecProjector == InitProjector /\ [][NextProjector]_vars

\* C1: gradient and div are exact negative adjoints: for every image x of
\* rank 2 or 3 and every directional field y of shape (rank,) + x.shape,
\* sum(gradient(x) * y) = -sum(x * div(y)).
GradDivAdjoint == adj.tested => adj.lhs = adj.rhs

\* the test has run on a rank-3 pair whose inner product is not zero, the
\* impulse of y away from the boundary of its axis
AdjointWitness ==
    /\ adj.tested
    /\ Ndim(adj.x) = 3
    /\ adj.lhs # 0
    /\ \E q \in Grid(adj.y.shape) :
          /\ adj.y.data[q] # 0
          /\ q[q[1] + 2] = 1
          /\ adj.y.shape[q[1] + 2] = 3

\* the squared norm across the components of the exact quotients at p, as
\* the fraction n / d
OutNormSq(out, p) ==
    [n |-> SumTo([d \in 0..(out.shape[1] - 1) |->
                     out.data[<<d>> \o p].num * out.data[<<d>> \o p].num], out.shape[1]),
     d |-> out.data[<<0>> \o p].den2]

\* C5: after _projector_on_dual every grid point's norm across the
\* components is at most 1, and at a grid point whose norm was already at
\* most 1 every component is unchanged.
ProjectorOnUnitBall ==
    prj.projected =>
        \A p \in Grid(Tail(prj.grad.shape)) :
            /\ OutNormSq(prj.out, p).n <= OutNormSq(prj.out, p).d
            /\ NormSq(prj.grad, p) <= One * One =>
                  \A d \in 0..(prj.grad.shape[1] - 1) :
                      prj.out.data[<<d>> \o p] =
                          [num |-> prj.grad.data[<<d>> \o p], den2 |-> One * One]

\* the projector has run on a rank-3 field with a point outside the ball,
\* which it scaled, and a point inside it with a nonzero component
ProjectorWitness ==
    /\ prj.projected
    /\ prj.grad.shape[1] = 3
    /\ \E p \in Grid(Tail(prj.grad.shape)) :
          /\ NormSq(prj.grad, p) > One * One
          /\ prj.out.data[<<0>> \o p].den2 = NormSq(prj.grad, p)
    /\ \E p \in Grid(Tail(prj.grad.shape)) :
          /\ NormSq(prj.grad, p) < One * One
          /\ NormSq(prj.grad, p) > 0
====
